---- MODULE Spec2Model ----
(***************************************************************************)
(* Model of the family-tree record service: the record store (families,   *)
(* people, locations, person_locations, relationships), the request       *)
(* handlers of app/main.py and the reconciliation services of             *)
(* app/services.py.  One action is one HTTP request, run in one session:  *)
(* it either commits or, on any exception, leaves the store untouched     *)
(* (get_session closes the session without commit, which rolls back).     *)
(* The relationship requests are also modelled step by step (reads, then  *)
(* flushes and commit), so that two of them can run at the same time.     *)
(***************************************************************************)
EXTENDS Integers, Sequences, FiniteSets, TLC

VARIABLES families, people, locations, person_locations, relationships, last,
          transactions

vars == <<families, people, locations, person_locations, relationships, last,
          transactions>>

(* ------------------------------ bounds --------------------------------- *)
MaxPersonId == 2
MaxFamilyId == 1
MaxRelId == 4
MaxLocPersonId == 1
MaxCascadePersonId == 3
MaxDate == 2
MaxLocationId == 2
MaxLinkId == 3
MaxAssignments == 2
MaxPermuted == 3
NumSessions == 2
MaxConcurrentRelId == 3
NumInputRoles == 2

(* --------------------------- program constants ------------------------- *)
HTTP_200_OK == 200
HTTP_201_CREATED == 201
HTTP_204_NO_CONTENT == 204
HTTP_400_BAD_REQUEST == 400
HTTP_404_NOT_FOUND == 404
HTTP_409_CONFLICT == 409
HTTP_422_UNPROCESSABLE_ENTITY == 422
HTTP_500_INTERNAL_SERVER_ERROR == 500

None == 0

RelationshipType == {"parent", "child", "spouse"}

LocationRole == {"birthplace", "residence", "burial"}

(* The roles in the order the enumeration declares them. *)
RoleOrder == <<"birthplace", "residence", "burial">>

RECIPROCAL_RELATIONSHIPS ==
    [t \in RelationshipType |->
        CASE t = "parent" -> "child"
          [] t = "child" -> "parent"
          [] t = "spouse" -> "spouse"]

PersonIds == 1..MaxPersonId
FamilyIds == 1..MaxFamilyId
RelIds == 1..MaxRelId
LocationIds == 1..MaxLocationId

(* ------------------------------ the store ------------------------------ *)
SetMax(S) == CHOOSE m \in S : \A x \in S : x <= m

(* An INTEGER PRIMARY KEY column of the default sqlite store: a new row    *)
(* takes one more than the largest id now in the table.                    *)
NextId(rows) == IF rows = {} THEN 1 ELSE SetMax({r.id : r \in rows}) + 1

Ids(rows) == {r.id : r \in rows}

Get(rows, id) == {r \in rows : r.id = id}

Edge(r) == <<r.from_person_id, r.to_person_id, r.type>>

Edges(rows) == {Edge(r) : r \in rows}

(* uq_relationship_pair *)
RelUnique(rows) ==
    \A r1, r2 \in rows : Edge(r1) = Edge(r2) => r1.id = r2.id

(* select(Relationship).where(from == f, to == t, type == ty): the rows    *)
(* of the database; the session does not autoflush, so pending rows are    *)
(* not seen.                                                               *)
SelectRelationship(db, f, t, ty) ==
    {r \in db : r.from_person_id = f /\ r.to_person_id = t /\ r.type = ty}

(* ---------------------------- the session ------------------------------ *)
(* db: the rows as the open transaction sees them; new: pending inserts    *)
(* in the order of session.add; dirty: pending type changes; deleted: ids  *)
(* marked by session.delete; failed: a statement raised IntegrityError.    *)
NewSession(db) ==
    [db |-> db, new |-> <<>>, dirty |-> {}, deleted |-> {}, failed |-> FALSE]

RECURSIVE InsertAll(_, _)
InsertAll(db, new) ==
    IF new = <<>> THEN db
    ELSE InsertAll(db \cup {[id |-> NextId(db),
                             from_person_id |-> Head(new)[1],
                             to_person_id |-> Head(new)[2],
                             type |-> Head(new)[3]]}, Tail(new))

ApplyDirty(db, dirty) ==
    {IF \E d \in dirty : d.id = r.id
        THEN [r EXCEPT !.type = (CHOOSE d \in dirty : d.id = r.id).type]
        ELSE r : r \in db}

(* Variant: the table has no unique constraint. *)
Flush_unchecked(s) ==
    LET updated == ApplyDirty(s.db, s.dirty)
        inserted == InsertAll(updated, s.new)
        remaining == {r \in inserted : r.id \notin s.deleted}
    IN IF s.failed THEN s
       ELSE [db |-> remaining, new |-> <<>>, dirty |-> {}, deleted |-> {},
             failed |-> FALSE]

(* session.flush(): the unit of work emits the UPDATEs, then the INSERTs,  *)
(* then the DELETEs of a mapper; the unique constraint is checked by each  *)
(* statement.                                                              *)
Flush(s) ==
    LET updated == ApplyDirty(s.db, s.dirty)
        inserted == InsertAll(updated, s.new)
        remaining == {r \in inserted : r.id \notin s.deleted}
    IN IF s.failed THEN s
       ELSE IF ~RelUnique(updated) \/ ~RelUnique(inserted)
            THEN [s EXCEPT !.failed = TRUE]
            ELSE [db |-> remaining, new |-> <<>>, dirty |-> {}, deleted |-> {},
                  failed |-> FALSE]

(* ----------------------- services.py: relationships -------------------- *)
(* Variant: the mirror is never inserted. *)
ensure_reciprocal_skip(s, rel) == s

ensure_reciprocal(s, rel) ==
    LET reciprocal_type == RECIPROCAL_RELATIONSHIPS[rel.type]
        reciprocal_exists ==
            SelectRelationship(s.db, rel.to_person_id, rel.from_person_id,
                               reciprocal_type)
    IN IF reciprocal_exists = {}
       THEN [s EXCEPT !.new = Append(@, <<rel.to_person_id, rel.from_person_id,
                                          reciprocal_type>>)]
       ELSE s

(* Variant: the old mirror is left in place. *)
remove_reciprocal_skip(s, rel) == s

(* Variant: every edge back from the to person is removed, whatever its   *)
(* type.                                                                   *)
remove_reciprocal_any_type(s, rel) ==
    [s EXCEPT !.deleted =
        @ \cup {r.id : r \in {x \in s.db :
                                 /\ x.from_person_id = rel.to_person_id
                                 /\ x.to_person_id = rel.from_person_id}}]

remove_reciprocal(s, rel) ==
    LET reciprocal_type == RECIPROCAL_RELATIONSHIPS[rel.type]
        reciprocal ==
            SelectRelationship(s.db, rel.to_person_id, rel.from_person_id,
                               reciprocal_type)
    IN IF reciprocal # {}
       THEN [s EXCEPT !.deleted = @ \cup {(CHOOSE r \in reciprocal : TRUE).id}]
       ELSE s

(* The result of a request: its status, the detail of the HTTPException    *)
(* it raised ("" when it returned) and the rows it commits (the rows       *)
(* before the request when it raised).                                     *)
Result(code, detail, rows) == [status |-> code, detail |-> detail, rows |-> rows]

Commit(s, code, before) ==
    LET f == Flush(s)
    IN IF f.failed
       THEN Result(HTTP_500_INTERNAL_SERVER_ERROR, "IntegrityError", before)
       ELSE Result(code, "", f.db)

(* Variant: the endpoints are looked up before the self check. *)
create_relationship_lookup_first(ppl, db, from, to, type) ==
    IF Get(ppl, from) = {} \/ Get(ppl, to) = {}
    THEN Result(HTTP_404_NOT_FOUND, "Person not found", db)
    ELSE IF from = to
    THEN Result(HTTP_400_BAD_REQUEST,
                "Cannot create relationship with the same person", db)
    ELSE IF SelectRelationship(db, from, to, type) # {}
    THEN Result(HTTP_409_CONFLICT, "Relationship already exists", db)
    ELSE LET relationship == [from_person_id |-> from, to_person_id |-> to,
                              type |-> type]
             s1 == [NewSession(db) EXCEPT !.new = <<<<from, to, type>>>>]
             s2 == ensure_reciprocal(s1, relationship)
         IN Commit(Flush(s2), HTTP_201_CREATED, db)

(* Variant: no lookup of an existing edge; the insert meets the unique    *)
(* constraint instead.                                                    *)
create_relationship_no_duplicate_check(ppl, db, from, to, type) ==
    IF from = to
    THEN Result(HTTP_400_BAD_REQUEST,
                "Cannot create relationship with the same person", db)
    ELSE IF Get(ppl, from) = {} \/ Get(ppl, to) = {}
    THEN Result(HTTP_404_NOT_FOUND, "Person not found", db)
    ELSE LET relationship == [from_person_id |-> from, to_person_id |-> to,
                              type |-> type]
             s1 == [NewSession(db) EXCEPT !.new = <<<<from, to, type>>>>]
             s2 == ensure_reciprocal(s1, relationship)
         IN Commit(Flush(s2), HTTP_201_CREATED, db)

(* Variant: only the from person is looked up. *)
create_relationship_from_only(ppl, db, from, to, type) ==
    IF from = to
    THEN Result(HTTP_400_BAD_REQUEST,
                "Cannot create relationship with the same person", db)
    ELSE IF Get(ppl, from) = {}
    THEN Result(HTTP_404_NOT_FOUND, "Person not found", db)
    ELSE IF SelectRelationship(db, from, to, type) # {}
    THEN Result(HTTP_409_CONFLICT, "Relationship already exists", db)
    ELSE LET relationship == [from_person_id |-> from, to_person_id |-> to,
                              type |-> type]
             s1 == [NewSession(db) EXCEPT !.new = <<<<from, to, type>>>>]
             s2 == ensure_reciprocal(s1, relationship)
         IN Commit(Flush(s2), HTTP_201_CREATED, db)

(* Variant: the mirror is replaced, not kept, when the pair has edges of  *)
(* another type: every other edge between the two persons is dropped.     *)
create_relationship_replace_pair(ppl, db, from, to, type) ==
    IF from = to
    THEN Result(HTTP_400_BAD_REQUEST,
                "Cannot create relationship with the same person", db)
    ELSE IF Get(ppl, from) = {} \/ Get(ppl, to) = {}
    THEN Result(HTTP_404_NOT_FOUND, "Person not found", db)
    ELSE IF SelectRelationship(db, from, to, type) # {}
    THEN Result(HTTP_409_CONFLICT, "Relationship already exists", db)
    ELSE LET relationship == [from_person_id |-> from, to_person_id |-> to,
                              type |-> type]
             kept == {r \in db : {r.from_person_id, r.to_person_id}
                                     # {from, to}}
             s1 == [NewSession(kept) EXCEPT !.new = <<<<from, to, type>>>>]
             s2 == ensure_reciprocal(s1, relationship)
         IN Commit(Flush(s2), HTTP_201_CREATED, db)

create_relationship(ppl, db, from, to, type) ==
    IF from = to
    THEN Result(HTTP_400_BAD_REQUEST,
                "Cannot create relationship with the same person", db)
    ELSE IF Get(ppl, from) = {} \/ Get(ppl, to) = {}
    THEN Result(HTTP_404_NOT_FOUND, "Person not found", db)
    ELSE IF SelectRelationship(db, from, to, type) # {}
    THEN Result(HTTP_409_CONFLICT, "Relationship already exists", db)
    ELSE LET relationship == [from_person_id |-> from, to_person_id |-> to,
                              type |-> type]
             s1 == [NewSession(db) EXCEPT !.new = <<<<from, to, type>>>>]
             s2 == ensure_reciprocal(s1, relationship)
         IN Commit(Flush(s2), HTTP_201_CREATED, db)

(* Variant: no early return when the type is unchanged; the mirror is     *)
(* removed and re-created.                                                 *)
update_relationship_no_shortcut(db, relationship, type) ==
    LET s1 == remove_reciprocal(NewSession(db), relationship)
        s2 == [s1 EXCEPT !.dirty = {[id |-> relationship.id,
                                     type |-> type]}]
        s3 == Flush(s2)
        s4 == ensure_reciprocal(s3, [relationship EXCEPT !.type = type])
    IN IF s3.failed
       THEN Result(HTTP_500_INTERNAL_SERVER_ERROR, "IntegrityError", db)
       ELSE Commit(Flush(s4), HTTP_200_OK, db)

update_relationship(db, relationship, type) ==
    IF relationship.type = type THEN Result(HTTP_200_OK, "", db)
    ELSE LET s1 == remove_reciprocal(NewSession(db), relationship)
             s2 == [s1 EXCEPT !.dirty = {[id |-> relationship.id,
                                          type |-> type]}]
             s3 == Flush(s2)
             s4 == ensure_reciprocal(s3, [relationship EXCEPT !.type = type])
         IN IF s3.failed
            THEN Result(HTTP_500_INTERNAL_SERVER_ERROR, "IntegrityError", db)
            ELSE Commit(Flush(s4), HTTP_200_OK, db)

(* Variant: only the addressed row is deleted. *)
delete_relationship_forward_only(db, relationship) ==
    Commit([NewSession(db) EXCEPT !.deleted = {relationship.id}],
           HTTP_204_NO_CONTENT, db)

delete_relationship(db, relationship) ==
    LET s1 == remove_reciprocal(NewSession(db), relationship)
        s2 == [s1 EXCEPT !.deleted = @ \cup {relationship.id}]
    IN Commit(s2, HTTP_204_NO_CONTENT, db)

(* ------------------- main.py: the relationship requests ---------------- *)
post_relationships(ppl, db, from, to, type) ==
    create_relationship(ppl, db, from, to, type)

put_relationship(db, relationship_id, type) ==
    IF Get(db, relationship_id) = {}
    THEN Result(HTTP_404_NOT_FOUND, "Relationship not found", db)
    ELSE update_relationship(db, CHOOSE r \in db : r.id = relationship_id, type)

delete_relationship_request(db, relationship_id) ==
    IF Get(db, relationship_id) = {}
    THEN Result(HTTP_404_NOT_FOUND, "Relationship not found", db)
    ELSE delete_relationship(db, CHOOSE r \in db : r.id = relationship_id)

(* --------------------- models.py: the delete cascades ------------------ *)
(* Person.relationships_from / relationships_to / locations: cascade       *)
(* "all, delete-orphan".                                                   *)
(* Variant: only Person.relationships_from cascades. *)
CascadeRelationships_from_only(db, pids) ==
    {r \in db : r.from_person_id \notin pids}

CascadeRelationships(db, pids) ==
    {r \in db : r.from_person_id \notin pids /\ r.to_person_id \notin pids}

CascadePersonLinks(links, pids) == {l \in links : l.person_id \notin pids}

(* Variant: the links of a deleted location are left behind. *)
CascadeLocationLinks_keep(links, lid) == links

(* Location.person_links: cascade "all, delete-orphan". *)
CascadeLocationLinks(links, lid) == {l \in links : l.location_id # lid}

(* Variant: deleting a family leaves its members. *)
Members_none(ppl, fid) == {}

(* Family.members: cascade "all, delete-orphan". *)
Members(ppl, fid) == {p.id : p \in {q \in ppl : q.family_id = fid}}

(* ------------------- services.py: location reconciler ------------------ *)
(* An assignment names a role and either an existing location            *)
(* (location_id) or inline data for a new one (new_location, None when    *)
(* absent).                                                               *)
NoNewLocation == {}

Assignment(role, location_id, new_location) ==
    [role |-> role, location_id |-> location_id, new_location |-> new_location]

(* Variant: only the first assignment's role counts as requested. *)
Roles_first_only(assignments) ==
    IF assignments = <<>> THEN {} ELSE {assignments[1].role}

Roles(assignments) == {assignments[i].role : i \in DOMAIN assignments}

(* The first scan of apply_person_locations: a role seen twice. *)
HasDuplicateRole(assignments) ==
    \E i, j \in DOMAIN assignments :
        i < j /\ assignments[i].role = assignments[j].role

(* uq_person_location_role *)
LinkUnique(links) ==
    \A l1, l2 \in links :
        (l1.person_id = l2.person_id /\ l1.role = l2.role) => l1.id = l2.id

(* The session of a person request: locs and links are the tables as the  *)
(* open transaction sees them; new, dirty and deleted are the pending     *)
(* PersonLocation inserts (in the order of session.add), re-pointings and *)
(* deletions; status is 0 until the request raises, detail its message.   *)
LocSession(locs, links) ==
    [locs |-> locs, links |-> links, new |-> <<>>, dirty |-> {},
     deleted |-> {}, status |-> 0, detail |-> ""]

RECURSIVE InsertLinks(_, _)
InsertLinks(links, new) ==
    IF new = <<>> THEN links
    ELSE InsertLinks(links \cup {[id |-> NextId(links),
                                  person_id |-> Head(new).person_id,
                                  location_id |-> Head(new).location_id,
                                  role |-> Head(new).role]}, Tail(new))

(* Variant: a re-pointed link is written back with its old location. *)
RepointLinks_keep(links, dirty) == links

RepointLinks(links, dirty) ==
    {IF \E d \in dirty : d.id = l.id
        THEN [l EXCEPT !.location_id =
                  (CHOOSE d \in dirty : d.id = l.id).location_id]
        ELSE l : l \in links}

(* session.flush() of the PersonLocation mapper: UPDATEs, INSERTs, then   *)
(* DELETEs.                                                               *)
FlushLinks(s) ==
    LET updated == RepointLinks(s.links, s.dirty)
        inserted == InsertLinks(updated, s.new)
        remaining == {l \in inserted : l.id \notin s.deleted}
    IN IF s.status # 0 THEN s
       ELSE IF ~LinkUnique(inserted)
            THEN [s EXCEPT !.status = HTTP_500_INTERNAL_SERVER_ERROR,
                           !.detail = "IntegrityError"]
            ELSE [s EXCEPT !.links = remaining, !.new = <<>>, !.dirty = {},
                           !.deleted = {}]

(* Variant: links of roles that are no longer requested are kept. *)
RemoveAbsentRoles_skip(s, existing, requested_roles) == s

(* Lines 46-49: links of roles that are no longer requested. *)
RemoveAbsentRoles(s, existing, requested_roles) ==
    [s EXCEPT !.deleted =
        @ \cup {l.id : l \in {e \in existing : e.role \notin requested_roles}}]

(* Variant: a link is added even when the person has one of that role. *)
SetLink_always_add(s, existing, person_id, role, location_id) ==
    [s EXCEPT !.new = Append(@, [person_id |-> person_id,
                                 location_id |-> location_id,
                                 role |-> role])]

(* Lines 63-69: re-point the person's link of that role, or add one. *)
SetLink(s, existing, person_id, role, location_id) ==
    IF \E l \in existing : l.role = role
    THEN [s EXCEPT !.dirty =
             @ \cup {[id |-> (CHOOSE l \in existing : l.role = role).id,
                      location_id |-> location_id]}]
    ELSE [s EXCEPT !.new = Append(@, [person_id |-> person_id,
                                      location_id |-> location_id,
                                      role |-> role])]

(* Lines 51-69: one pass of the loop for each assignment, in input order. *)
RECURSIVE ApplyAssignments(_, _, _, _)
ApplyAssignments(s, existing, person_id, assignments) ==
    IF assignments = <<>> \/ s.status # 0 THEN s
    ELSE LET assignment == Head(assignments)
         IN IF assignment.new_location # NoNewLocation
            THEN LET location_id == NextId(s.locs)
                     s1 == FlushLinks(
                               [s EXCEPT !.locs = @ \cup
                                   {[id |-> location_id,
                                     name |-> CHOOSE n \in assignment.new_location : TRUE]}])
                 IN ApplyAssignments(
                        SetLink(s1, existing, person_id, assignment.role,
                                location_id),
                        existing, person_id, Tail(assignments))
            ELSE IF Get(s.locs, assignment.location_id) = {}
                 THEN [s EXCEPT !.status = HTTP_404_NOT_FOUND,
                                !.detail = "Location not found"]
                 ELSE ApplyAssignments(
                          SetLink(s, existing, person_id, assignment.role,
                                  assignment.location_id),
                          existing, person_id, Tail(assignments))

apply_person_locations(s, person_id, assignments) ==
    IF HasDuplicateRole(assignments)
    THEN [s EXCEPT !.status = HTTP_400_BAD_REQUEST,
                   !.detail = "Duplicate location role"]
    ELSE LET existing == {l \in s.links : l.person_id = person_id}
         IN ApplyAssignments(
                RemoveAbsentRoles(s, existing, Roles(assignments)),
                existing, person_id, assignments)

(* ---------------------- main.py: the family requests ------------------ *)
(* Family.name is declared unique. *)
FamilyNameUnique(fams) ==
    \A f1, f2 \in fams : f1.name = f2.name => f1.id = f2.id

(* Variant: the family is stored whatever name it carries. *)
create_family_unchecked(fams, name) ==
    [status |-> HTTP_201_CREATED,
     families |-> fams \cup {[id |-> NextId(fams), name |-> name]}]

(* POST /families: the commit's INSERT fails on a name already stored. *)
create_family(fams, name) ==
    LET family == [id |-> NextId(fams), name |-> name]
    IN IF ~FamilyNameUnique(fams \cup {family})
       THEN [status |-> HTTP_500_INTERNAL_SERVER_ERROR, families |-> fams]
       ELSE [status |-> HTTP_201_CREATED, families |-> fams \cup {family}]

(* ---------------------- main.py: the people requests ------------------- *)
ensure_family_exists(fams, family_id) ==
    family_id = None \/ Get(fams, family_id) # {}

(* The body of POST /people. family is the inline family (NoFamily when   *)
(* absent, else the set holding its name); dates are day numbers, None    *)
(* when absent.                                                           *)
NoFamily == {}

PersonCreate(birth_date, death_date, family_id, family, assignments) ==
    [birth_date |-> birth_date, death_date |-> death_date,
     family_id |-> family_id, family |-> family, locations |-> assignments]

(* The body of PUT /people/{id}. fields_set names the fields the body     *)
(* carries (exclude_unset); "locations" is in it when the body carries a  *)
(* locations list (a null list is handled as an absent one).              *)
PersonUpdate(fields_set, birth_date, death_date, family_id, assignments) ==
    [fields_set |-> fields_set, birth_date |-> birth_date,
     death_date |-> death_date, family_id |-> family_id,
     locations |-> assignments]

(* The validator of the create body: death_date is not before birth_date. *)
validate_dates(birth_date, death_date) ==
    birth_date = None \/ death_date = None \/ death_date >= birth_date

(* The outcome of a people request: status, and the families, people,     *)
(* locations and links it commits (those before the request when it       *)
(* raised).                                                               *)
PersonResult(code, detail, fams, ppl, locs, links) ==
    [status |-> code, detail |-> detail, families |-> fams, people |-> ppl,
     locations |-> locs, links |-> links]

Rejected(code, detail, before) ==
    PersonResult(code, detail, before.families, before.people,
                 before.locations, before.links)

(* Variant: the scalar fields set before the reconciler raised are kept. *)
CommitPerson_keep_fields(s, code, fams, ppl, before) ==
    LET f == FlushLinks(s)
    IN IF f.status # 0
       THEN PersonResult(f.status, f.detail, before.families, ppl,
                         before.locations, before.links)
       ELSE PersonResult(code, "", fams, ppl, f.locs, f.links)

(* Variant: what was flushed before the reconciler raised is kept. *)
CommitPerson_keep_flushed(s, code, fams, ppl, before) ==
    LET f == FlushLinks(s)
    IN IF f.status # 0
       THEN PersonResult(f.status, f.detail, before.families, before.people,
                         f.locs, f.links)
       ELSE PersonResult(code, "", fams, ppl, f.locs, f.links)

(* Variant: a location that no link references any more is dropped. *)
CommitPerson_drop_unlinked(s, code, fams, ppl, before) ==
    LET f == FlushLinks(s)
    IN IF f.status # 0
       THEN Rejected(f.status, f.detail, before)
       ELSE PersonResult(code, "", fams, ppl,
                         {l \in f.locs :
                             \E k \in f.links : k.location_id = l.id},
                         f.links)

(* Variant: the family flushed before the request raised is kept. *)
CommitPerson_keep_family(s, code, fams, ppl, before) ==
    LET f == FlushLinks(s)
    IN IF f.status # 0
       THEN PersonResult(f.status, f.detail, fams, before.people,
                         before.locations, before.links)
       ELSE PersonResult(code, "", fams, ppl, f.locs, f.links)

(* session.commit() at the end of a people request, or the rollback that  *)
(* get_session leaves when the request raised.                            *)
CommitPerson(s, code, fams, ppl, before) ==
    LET f == FlushLinks(s)
    IN IF f.status # 0
       THEN Rejected(f.status, f.detail, before)
       ELSE PersonResult(code, "", fams, ppl, f.locs, f.links)

create_person(fams, ppl, locs, links, payload) ==
    LET before == [families |-> fams, people |-> ppl, locations |-> locs,
                   links |-> links]
        family == [id |-> NextId(fams),
                   name |-> CHOOSE n \in payload.family : TRUE]
        fams1 == IF payload.family # NoFamily THEN fams \cup {family}
                 ELSE fams
        family_id == IF payload.family # NoFamily THEN family.id
                     ELSE payload.family_id
        person == [id |-> NextId(ppl), family_id |-> family_id,
                   birth_date |-> payload.birth_date,
                   death_date |-> payload.death_date]
    IN IF payload.family # NoFamily /\ payload.family_id # None
       THEN Rejected(HTTP_400_BAD_REQUEST,
                     "Provide either family_id or family payload, not both",
                     before)
       ELSE IF payload.family # NoFamily /\ ~FamilyNameUnique(fams1)
       THEN Rejected(HTTP_500_INTERNAL_SERVER_ERROR, "IntegrityError", before)
       ELSE IF payload.family = NoFamily
               /\ ~ensure_family_exists(fams, family_id)
       THEN Rejected(HTTP_404_NOT_FOUND, "Family not found", before)
       ELSE CommitPerson(
                apply_person_locations(LocSession(locs, links), person.id,
                                       payload.locations),
                HTTP_201_CREATED, fams1, ppl \cup {person}, before)

(* POST /people: the body is validated before the handler runs. *)
post_people(fams, ppl, locs, links, payload) ==
    IF ~validate_dates(payload.birth_date, payload.death_date)
    THEN PersonResult(HTTP_422_UNPROCESSABLE_ENTITY,
                      "death_date cannot be earlier than birth_date",
                      fams, ppl, locs, links)
    ELSE create_person(fams, ppl, locs, links, payload)

(* Lines 459-461: setattr for every field the body carries. *)
SetFields(person, payload) ==
    [person EXCEPT
        !.family_id = IF "family_id" \in payload.fields_set
                      THEN payload.family_id ELSE @,
        !.birth_date = IF "birth_date" \in payload.fields_set
                       THEN payload.birth_date ELSE @,
        !.death_date = IF "death_date" \in payload.fields_set
                       THEN payload.death_date ELSE @]

(* Variant: the reconciler runs whether or not the body carries a         *)
(* locations list.                                                         *)
update_person_always_apply(fams, ppl, locs, links, person_id, payload) ==
    LET before == [families |-> fams, people |-> ppl, locations |-> locs,
                   links |-> links]
    IN IF Get(ppl, person_id) = {}
       THEN Rejected(HTTP_404_NOT_FOUND, "Person not found", before)
       ELSE IF payload.family_id # None
               /\ ~ensure_family_exists(fams, payload.family_id)
       THEN Rejected(HTTP_404_NOT_FOUND, "Family not found", before)
       ELSE LET updated ==
                    {IF p.id = person_id THEN SetFields(p, payload) ELSE p :
                        p \in ppl}
                s == apply_person_locations(LocSession(locs, links),
                                            person_id, payload.locations)
            IN CommitPerson(s, HTTP_200_OK, fams, updated, before)

update_person(fams, ppl, locs, links, person_id, payload) ==
    LET before == [families |-> fams, people |-> ppl, locations |-> locs,
                   links |-> links]
    IN IF Get(ppl, person_id) = {}
       THEN Rejected(HTTP_404_NOT_FOUND, "Person not found", before)
       ELSE IF payload.family_id # None
               /\ ~ensure_family_exists(fams, payload.family_id)
       THEN Rejected(HTTP_404_NOT_FOUND, "Family not found", before)
       ELSE LET updated ==
                    {IF p.id = person_id THEN SetFields(p, payload) ELSE p :
                        p \in ppl}
                s == IF "locations" \in payload.fields_set
                     THEN apply_person_locations(LocSession(locs, links),
                                                 person_id, payload.locations)
                     ELSE LocSession(locs, links)
            IN CommitPerson(s, HTTP_200_OK, fams, updated, before)

(* ------------------------ main.py: the person form --------------------- *)
(* A submitted form: first_name and last_name say whether the field is    *)
(* non-blank after strip; existing_family_id and each place's location_id *)
(* are None when blank, Invalid when not a number; new_family_name and    *)
(* each place's location_name are empty when blank.                       *)
Invalid == -1

Place(location_id, location_name) ==
    [location_id |-> location_id, location_name |-> location_name]

(* Lines 171-200: one assignment for each role that names a place, in the *)
(* order of LocationRole; a new name is preferred to a selection.         *)
RECURSIVE FormAssignments(_, _)
FormAssignments(form, roles) ==
    IF roles = <<>> THEN <<>>
    ELSE LET role == Head(roles)
             place == form.places[role]
             rest == FormAssignments(form, Tail(roles))
         IN IF place.location_name # NoNewLocation
            THEN <<Assignment(role, None, place.location_name)>> \o rest
            ELSE IF place.location_id \notin {None, Invalid}
            THEN <<Assignment(role, place.location_id, NoNewLocation)>>
                     \o rest
            ELSE rest

(* Lines 146-169 and 192-196: the messages collected before anything is   *)
(* sent.                                                                  *)
FormErrors(form) ==
    LET early == (IF form.first_name THEN {}
                  ELSE {"First name is required."})
                 \cup (IF form.last_name THEN {}
                       ELSE {"Last name is required."})
                 \cup (IF form.new_family_name = NoFamily
                          /\ form.existing_family_id = Invalid
                       THEN {"Invalid family selection."} ELSE {})
    IN IF early # {} THEN early
       ELSE {"Invalid location selection." :
                role \in {r \in DOMAIN form.places :
                             /\ form.places[r].location_name = NoNewLocation
                             /\ form.places[r].location_id = Invalid}}

FormPayload(form) ==
    PersonCreate(form.birth_date, form.death_date,
                 IF form.new_family_name # NoFamily THEN None
                 ELSE form.existing_family_id,
                 form.new_family_name,
                 FormAssignments(form, RoleOrder))

FormResult(message_type, res) ==
    [status |-> HTTP_200_OK, message_type |-> message_type,
     families |-> res.families, people |-> res.people,
     locations |-> res.locations, links |-> res.links]

(* Variant: the new family is posted before the fields are checked. *)
submit_person_form_family_first(fams, ppl, locs, links, form) ==
    LET fams1 == IF form.new_family_name # NoFamily
                 THEN create_family_unchecked(
                          fams, CHOOSE n \in form.new_family_name : TRUE
                      ).families
                 ELSE fams
        before == PersonResult(0, "", fams1, ppl, locs, links)
        family_id == IF form.new_family_name # NoFamily
                     THEN NextId(fams)
                     ELSE form.existing_family_id
        payload == [FormPayload(form) EXCEPT !.family = NoFamily,
                                            !.family_id = family_id]
    IN IF FormErrors(form) # {} THEN FormResult("error", before)
       ELSE IF ~validate_dates(payload.birth_date, payload.death_date)
       THEN FormResult("error", before)
       ELSE LET res == post_people(fams1, ppl, locs, links, payload)
            IN FormResult(IF res.status = HTTP_201_CREATED THEN "success"
                          ELSE "error", res)

(* POST /ui/people *)
submit_person_form(fams, ppl, locs, links, form) ==
    LET before == PersonResult(0, "", fams, ppl, locs, links)
        payload == FormPayload(form)
    IN IF FormErrors(form) # {} THEN FormResult("error", before)
       ELSE IF ~validate_dates(payload.birth_date, payload.death_date)
       THEN FormResult("error", before)
       ELSE LET res == post_people(fams, ppl, locs, links, payload)
            IN FormResult(IF res.status = HTTP_201_CREATED THEN "success"
                          ELSE "error", res)

(* ------------------------------ requests ------------------------------- *)
(* The sessions of requests that run at the same time; a session that    *)
(* serves no request is idle.  A session in use holds what its request    *)
(* has loaded so far: op, the addressed row (id, from, to, type as read   *)
(* by session.get) or the edge to create, new_type, and mirror, the ids   *)
(* of the rows the mirror lookup returned.                                 *)
Sessions == 1..NumSessions

Idle ==
    [pc |-> "idle", op |-> "none", id |-> None, from |-> None, to |-> None,
     type |-> "none", new_type |-> "none", mirror |-> {}]

Init ==
    /\ families = {}
    /\ people = {}
    /\ locations = {}
    /\ person_locations = {}
    /\ relationships = {}
    /\ last = [op |-> "init", status |-> 0]
    /\ transactions = [s \in Sessions |-> Idle]

CreateFamily(name) ==
    LET res == create_family(families, name)
    IN /\ Ids(res.families) \subseteq FamilyIds
       /\ families' = res.families
       /\ last' = [op |-> "create_family", status |-> res.status,
                   id |-> NextId(families)]
       /\ UNCHANGED <<people, locations, person_locations, relationships,
                      transactions>>

DeleteFamily(family_id) ==
    IF Get(families, family_id) = {}
    THEN /\ last' = [op |-> "delete_family", status |-> HTTP_404_NOT_FOUND,
                     id |-> family_id]
         /\ UNCHANGED <<families, people, locations, person_locations,
                        relationships, transactions>>
    ELSE LET gone == Members(people, family_id)
         IN /\ families' = {f \in families : f.id # family_id}
            /\ people' = {p \in people : p.id \notin gone}
            /\ relationships' = CascadeRelationships(relationships, gone)
            /\ person_locations' = CascadePersonLinks(person_locations, gone)
            /\ last' = [op |-> "delete_family",
                        status |-> HTTP_204_NO_CONTENT, id |-> family_id,
                        members |-> gone,
                        edges |-> Cardinality(relationships)
                                    - Cardinality(relationships'),
                        links |-> Cardinality(person_locations)
                                    - Cardinality(person_locations')]
            /\ UNCHANGED <<locations, transactions>>

DeletePerson(person_id) ==
    IF Get(people, person_id) = {}
    THEN /\ last' = [op |-> "delete_person", status |-> HTTP_404_NOT_FOUND,
                     id |-> person_id]
         /\ UNCHANGED <<families, people, locations, person_locations,
                        relationships, transactions>>
    ELSE /\ people' = {p \in people : p.id # person_id}
         /\ relationships' = CascadeRelationships(relationships, {person_id})
         /\ person_locations' =
                CascadePersonLinks(person_locations, {person_id})
         /\ last' = [op |-> "delete_person", status |-> HTTP_204_NO_CONTENT,
                     id |-> person_id,
                     edges |-> Cardinality(relationships)
                                 - Cardinality(relationships'),
                     links |-> Cardinality(person_locations)
                                 - Cardinality(person_locations')]
         /\ UNCHANGED <<families, locations, transactions>>

CreateRelationship(from, to, type) ==
    LET res == post_relationships(people, relationships, from, to, type)
    IN /\ Ids(res.rows) \subseteq RelIds
       /\ relationships' = res.rows
       /\ last' = [op |-> "create_relationship", status |-> res.status,
                   detail |-> res.detail, from |-> from, to |-> to,
                   type |-> type]
       /\ UNCHANGED <<families, people, locations, person_locations,
                      transactions>>

UpdateRelationship(relationship_id, type) ==
    LET res == put_relationship(relationships, relationship_id, type)
    IN /\ Ids(res.rows) \subseteq RelIds
       /\ relationships' = res.rows
       /\ last' = [op |-> "update_relationship", status |-> res.status,
                   detail |-> res.detail, id |-> relationship_id,
                   type |-> type,
                   old |-> Edges(Get(relationships, relationship_id))]
       /\ UNCHANGED <<families, people, locations, person_locations,
                      transactions>>

DeleteRelationship(relationship_id) ==
    LET res == delete_relationship_request(relationships, relationship_id)
    IN /\ relationships' = res.rows
       /\ last' = [op |-> "delete_relationship", status |-> res.status,
                   detail |-> res.detail, id |-> relationship_id,
                   old |-> Edges(Get(relationships, relationship_id))]
       /\ UNCHANGED <<families, people, locations, person_locations,
                      transactions>>

CreateLocation ==
    /\ NextId(locations) <= MaxLocationId
    /\ locations' = locations \cup {[id |-> NextId(locations),
                                     name |-> "posted"]}
    /\ last' = [op |-> "create_location", status |-> HTTP_201_CREATED,
                id |-> NextId(locations)]
    /\ UNCHANGED <<families, people, person_locations, relationships,
                   transactions>>

DeleteLocation(location_id) ==
    IF Get(locations, location_id) = {}
    THEN /\ last' = [op |-> "delete_location", status |-> HTTP_404_NOT_FOUND,
                     id |-> location_id]
         /\ UNCHANGED <<families, people, locations, person_locations,
                        relationships, transactions>>
    ELSE /\ locations' = {l \in locations : l.id # location_id}
         /\ person_locations' =
                CascadeLocationLinks(person_locations, location_id)
         /\ last' = [op |-> "delete_location",
                     status |-> HTTP_204_NO_CONTENT, id |-> location_id,
                     links |-> Cardinality(person_locations)
                                 - Cardinality(person_locations')]
         /\ UNCHANGED <<families, people, relationships, transactions>>

CreatePerson(max_id, payload) ==
    LET res == post_people(families, people, locations, person_locations,
                           payload)
    IN /\ Ids(res.families) \subseteq FamilyIds
       /\ Ids(res.people) \subseteq 1..max_id
       /\ Ids(res.locations) \subseteq LocationIds
       /\ Ids(res.links) \subseteq 1..MaxLinkId
       /\ families' = res.families
       /\ people' = res.people
       /\ locations' = res.locations
       /\ person_locations' = res.links
       /\ last' = [op |-> "create_person", status |-> res.status,
                   detail |-> res.detail, id |-> NextId(people),
                   family |-> Ids(res.families) \ Ids(families)]
       /\ UNCHANGED <<relationships, transactions>>

LinksOf(links, p) == {l \in links : l.person_id = p}

(* The links that the request kept and moved to another location. *)
Repointed(before, after) ==
    {l.id : l \in {m \in before :
                      \E n \in after :
                          n.id = m.id /\ n.location_id # m.location_id}} # {}

UpdatePerson(person_id, payload) ==
    LET res == update_person(families, people, locations, person_locations,
                             person_id, payload)
    IN /\ Ids(res.locations) \subseteq LocationIds
       /\ Ids(res.links) \subseteq 1..MaxLinkId
       /\ people' = res.people
       /\ locations' = res.locations
       /\ person_locations' = res.links
       /\ last' = [op |-> "update_person", status |-> res.status,
                   detail |-> res.detail, id |-> person_id,
                   repointed |-> Repointed(person_locations, res.links),
                   removed |-> Ids(LinksOf(person_locations, person_id))
                                   \ Ids(res.links) # {}]
       /\ UNCHANGED <<families, relationships, transactions>>

(* The request inputs: the roles a request may name, the assignments and *)
(* the assignment lists.                                                  *)
InputRoles ==
    {RoleOrder[i] : i \in {j \in 1..NumInputRoles : j <= Len(RoleOrder)}}

AssignmentSet ==
    {Assignment(role, id, NoNewLocation) :
        role \in InputRoles, id \in LocationIds}
    \cup {Assignment(role, None, {"inline"}) : role \in InputRoles}

AssignmentLists ==
    UNION {[1..n -> AssignmentSet] : n \in 0..MaxAssignments}

FamilyRefs == {None} \cup FamilyIds

(* Bodies that carry no dates and no inline family. *)
PersonCreates ==
    {PersonCreate(None, None, f, NoFamily, a) :
        f \in FamilyRefs, a \in AssignmentLists}

PersonPayloads ==
    {PersonUpdate(fs, None, None, f, a) :
        fs \in SUBSET {"family_id", "locations"}, f \in FamilyRefs,
        a \in AssignmentLists}

PersonUpdates ==
    {u \in PersonPayloads :
        /\ ("family_id" \in u.fields_set \/ u.family_id = None)
        /\ ("locations" \in u.fields_set \/ u.locations = <<>>)}

(* The names a family request may carry. *)
FamilyNames == {"posted"}

(* The relationship store: families, people and relationships. *)
Next ==
    \/ \E n \in FamilyNames : CreateFamily(n)
    \/ \E f \in FamilyIds : DeleteFamily(f)
    \/ \E f \in FamilyRefs :
           CreatePerson(MaxPersonId, PersonCreate(None, None, f, NoFamily, <<>>))
    \/ \E p \in PersonIds : DeletePerson(p)
    \/ \E from, to \in PersonIds, type \in RelationshipType :
           CreateRelationship(from, to, type)
    \/ \E r \in RelIds, type \in RelationshipType : UpdateRelationship(r, type)
    \/ \E r \in RelIds : DeleteRelationship(r)

Spec == Init /\ [][Next]_vars

(* The people and locations store: families, people, locations, links. *)
NextLoc ==
    \/ \E n \in FamilyNames : CreateFamily(n)
    \/ CreateLocation
    \/ \E l \in LocationIds : DeleteLocation(l)
    \/ \E c \in PersonCreates : CreatePerson(MaxLocPersonId, c)
    \/ \E p \in 1..MaxLocPersonId, u \in PersonUpdates :
           UpdatePerson(p, u)
    \/ \E p \in 1..MaxLocPersonId : DeletePerson(p)

SpecLoc == Init /\ [][NextLoc]_vars

(* Bodies that carry at most a birthplace created inline. *)
CascadeCreates ==
    {PersonCreate(None, None, f, NoFamily, a) :
        f \in FamilyRefs,
        a \in {<<>>, <<Assignment(RoleOrder[1], None, {"inline"})>>}}

(* People with relationships and links, and their deletion; a           *)
(* relationship request names the person of the lower id first.           *)
NextCascade ==
    \/ \E c \in CascadeCreates :
           c.family_id = None /\ CreatePerson(MaxCascadePersonId, c)
    \/ \E p \in 1..MaxCascadePersonId : DeletePerson(p)
    \/ \E from, to \in 1..MaxCascadePersonId, type \in RelationshipType :
           from < to /\ CreateRelationship(from, to, type)

SpecCascade == Init /\ [][NextCascade]_vars

(* Families whose members have relationships and links, and their         *)
(* deletion.                                                              *)
NextFamily ==
    \/ \E n \in FamilyNames : CreateFamily(n)
    \/ \E f \in FamilyIds : DeleteFamily(f)
    \/ \E c \in CascadeCreates : CreatePerson(MaxPersonId, c)
    \/ \E from, to \in PersonIds, type \in RelationshipType :
           CreateRelationship(from, to, type)

SpecFamily == Init /\ [][NextFamily]_vars

SubmitPersonForm(form) ==
    LET res == submit_person_form(families, people, locations,
                                  person_locations, form)
    IN /\ Ids(res.families) \subseteq FamilyIds
       /\ Ids(res.people) \subseteq 1..MaxLocPersonId
       /\ Ids(res.locations) \subseteq LocationIds
       /\ Ids(res.links) \subseteq 1..MaxLinkId
       /\ families' = res.families
       /\ people' = res.people
       /\ locations' = res.locations
       /\ person_locations' = res.links
       /\ last' = [op |-> "submit_person_form", status |-> res.status,
                   message_type |-> res.message_type,
                   sent |-> FormErrors(form) = {},
                   named |-> /\ form.new_family_name # NoFamily
                             /\ \E r \in DOMAIN form.places :
                                    form.places[r].location_name
                                        # NoNewLocation]
       /\ UNCHANGED <<relationships, transactions>>

(* Bodies that may carry an inline family and inline locations. *)
NestedCreates ==
    {PersonCreate(None, None, f, fam, a) :
        f \in FamilyRefs,
        fam \in {NoFamily} \cup {{n} : n \in FamilyNames},
        a \in AssignmentLists}

(* Person creation with nested families and locations. *)
NextNested ==
    \/ \E n \in FamilyNames : CreateFamily(n)
    \/ CreateLocation
    \/ \E c \in NestedCreates : CreatePerson(MaxLocPersonId, c)

SpecNested == Init /\ [][NextNested]_vars

(* The forms: a place is blank, a new name, a selection or a selection    *)
(* that is not a number; roles beyond the input roles are left blank;     *)
(* the dates are blank or a death before a birth.                         *)
Places ==
    {Place(None, NoNewLocation), Place(None, {"inline"}),
     Place(Invalid, NoNewLocation)}
    \cup {Place(id, NoNewLocation) : id \in LocationIds}

Forms ==
    {[first_name |-> fn, last_name |-> ln, birth_date |-> dt[1],
      death_date |-> dt[2], existing_family_id |-> f,
      new_family_name |-> fam, places |-> pl] :
        fn \in BOOLEAN, ln \in BOOLEAN,
        dt \in {<<None, None>>, <<MaxDate, 1>>},
        f \in FamilyRefs \cup {Invalid},
        fam \in {NoFamily} \cup {{n} : n \in FamilyNames},
        pl \in {q \in [LocationRole -> Places] :
                  \A r \in LocationRole \ InputRoles :
                      q[r] = Place(None, NoNewLocation)}}

(* The person form with the family and location requests. *)
NextForm ==
    \/ \E n \in FamilyNames : CreateFamily(n)
    \/ CreateLocation
    \/ \E form \in Forms : SubmitPersonForm(form)

SpecForm == Init /\ [][NextForm]_vars

(* Dates are day numbers. *)
Dates == {None} \cup 1..MaxDate

(* Bodies that carry only dates. *)
DatedCreates ==
    {PersonCreate(b, d, None, NoFamily, <<>>) : b \in Dates, d \in Dates}

DatedUpdates ==
    {u \in {PersonUpdate(fs, b, d, None, <<>>) :
               fs \in SUBSET {"birth_date", "death_date"},
               b \in Dates, d \in Dates} :
        /\ ("birth_date" \in u.fields_set \/ u.birth_date = None)
        /\ ("death_date" \in u.fields_set \/ u.death_date = None)}

(* People and their dates. *)
NextDates ==
    \/ \E c \in DatedCreates : CreatePerson(MaxPersonId, c)
    \/ \E p \in PersonIds, u \in DatedUpdates : UpdatePerson(p, u)
    \/ \E p \in PersonIds : DeletePerson(p)

SpecDates == Init /\ [][NextDates]_vars

(* Three people, some with a birthplace link, and every relationship      *)
(* request between them; a create names the person of the lower id first. *)
NextEdges ==
    \/ \E c \in CascadeCreates :
           c.family_id = None /\ CreatePerson(MaxCascadePersonId, c)
    \/ \E from, to \in 1..MaxCascadePersonId, type \in RelationshipType :
           from < to /\ CreateRelationship(from, to, type)
    \/ \E r \in RelIds, type \in RelationshipType :
           UpdateRelationship(r, type)
    \/ \E r \in RelIds : DeleteRelationship(r)

SpecEdges == Init /\ [][NextEdges]_vars

(* Two people with links, and the updates of them that carry no family.   *)
NextLinks ==
    \/ \E c \in CascadeCreates :
           c.family_id = None /\ CreatePerson(MaxPersonId, c)
    \/ \E p \in PersonIds, u \in PersonUpdates :
           "family_id" \notin u.fields_set /\ UpdatePerson(p, u)

SpecLinks == Init /\ [][NextLinks]_vars

(* ================= relationship requests run concurrently ============== *)
(* The default store is a sqlite file reached through the pysqlite driver *)
(* (config.py 11-12, database.py 12-15): a SELECT runs outside any        *)
(* transaction and sees the rows committed so far; the transaction begins *)
(* with the first INSERT, UPDATE or DELETE of a flush and holds the       *)
(* write lock of the database until commit or rollback, so the statements *)
(* of one request's flushes and commit are not interleaved with another   *)
(* request's writes.  The reads of a request are: session.get or the      *)
(* lookup of an existing edge, then the lookup of the mirror.             *)

(* The response a request gives before it loads anything it keeps: the    *)
(* set is empty when the request goes on.                                 *)
CreateRefused(ppl, db, from, to, type) ==
    IF \/ from = to
       \/ Get(ppl, from) = {} \/ Get(ppl, to) = {}
       \/ SelectRelationship(db, from, to, type) # {}
    THEN {create_relationship(ppl, db, from, to, type)}
    ELSE {}

UpdateRefused(db, relationship_id, type) ==
    IF \/ Get(db, relationship_id) = {}
       \/ \E r \in Get(db, relationship_id) : r.type = type
    THEN {put_relationship(db, relationship_id, type)}
    ELSE {}

DeleteRefused(db, relationship_id) ==
    IF Get(db, relationship_id) = {}
    THEN {delete_relationship_request(db, relationship_id)}
    ELSE {}

(* The row session.get returned, kept by the session as it was read. *)
Loaded(op, r, new_type) ==
    [pc |-> "loaded", op |-> op, id |-> r.id, from |-> r.from_person_id,
     to |-> r.to_person_id, type |-> r.type, new_type |-> new_type,
     mirror |-> {}]

(* _ensure_reciprocal (create) and _remove_reciprocal (update, delete):   *)
(* the select of the mirror row.                                          *)
reciprocal_lookup(db, t) ==
    [t EXCEPT !.pc = "ready",
              !.mirror = Ids(SelectRelationship(
                                 db, t.to, t.from,
                                 RECIPROCAL_RELATIONSHIPS[t.type]))]

(* The flushes and the commit of a request whose reads are done, run on   *)
(* the rows committed by then.                                            *)
commit_create(db, t) ==
    LET edge == <<t.from, t.to, t.type>>
        reciprocal == <<t.to, t.from, RECIPROCAL_RELATIONSHIPS[t.type]>>
        s1 == [NewSession(db) EXCEPT
                  !.new = IF t.mirror = {} THEN <<edge, reciprocal>>
                          ELSE <<edge>>]
    IN Commit(Flush(s1), HTTP_201_CREATED, db)

(* DELETE of a row that is gone matches no row, which the mapper only     *)
(* warns about.                                                            *)
commit_delete(db, t) ==
    Commit([NewSession(db) EXCEPT !.deleted = {t.id} \cup t.mirror],
           HTTP_204_NO_CONTENT, db)

(* UPDATE of a row that is gone matches no row: StaleDataError.  The      *)
(* second mirror lookup runs inside the transaction the first flush       *)
(* opened.                                                                 *)
commit_update(db, t) ==
    IF Get(db, t.id) = {}
    THEN Result(HTTP_500_INTERNAL_SERVER_ERROR, "StaleDataError", db)
    ELSE LET s2 == [NewSession(db) EXCEPT
                       !.deleted = t.mirror,
                       !.dirty = {[id |-> t.id, type |-> t.new_type]}]
             s3 == Flush(s2)
             s4 == ensure_reciprocal(
                       s3, [from_person_id |-> t.from, to_person_id |-> t.to,
                            type |-> t.new_type])
         IN IF s3.failed
            THEN Result(HTTP_500_INTERNAL_SERVER_ERROR, "IntegrityError", db)
            ELSE Commit(Flush(s4), HTTP_200_OK, db)

(* SessionLocal(): a request takes a session of its own; the sessions    *)
(* are alike, so the request takes the first that serves no request.      *)
Free(s) ==
    /\ transactions[s].pc = "idle"
    /\ \A k \in Sessions : k < s => transactions[k].pc # "idle"

Respond(op, res) ==
    last' = [op |-> op, status |-> res.status, detail |-> res.detail]

BeginCreate(s, from, to, type) ==
    LET refused == CreateRefused(people, relationships, from, to, type)
    IN /\ Free(s)
       /\ IF refused # {}
          THEN /\ Respond("create_relationship",
                          CHOOSE res \in refused : TRUE)
               /\ UNCHANGED transactions
          ELSE /\ transactions' =
                      [transactions EXCEPT ![s] =
                          [pc |-> "loaded", op |-> "create_relationship",
                           id |-> None, from |-> from, to |-> to,
                           type |-> type, new_type |-> "none",
                           mirror |-> {}]]
               /\ UNCHANGED last
       /\ UNCHANGED <<families, people, locations, person_locations,
                      relationships>>

BeginUpdate(s, relationship_id, type) ==
    LET refused == UpdateRefused(relationships, relationship_id, type)
    IN /\ Free(s)
       /\ IF refused # {}
          THEN /\ Respond("update_relationship",
                          CHOOSE res \in refused : TRUE)
               /\ UNCHANGED transactions
          ELSE /\ transactions' =
                      [transactions EXCEPT ![s] =
                          Loaded("update_relationship",
                                 CHOOSE r \in relationships :
                                     r.id = relationship_id, type)]
               /\ UNCHANGED last
       /\ UNCHANGED <<families, people, locations, person_locations,
                      relationships>>

BeginDelete(s, relationship_id) ==
    LET refused == DeleteRefused(relationships, relationship_id)
    IN /\ Free(s)
       /\ IF refused # {}
          THEN /\ Respond("delete_relationship",
                          CHOOSE res \in refused : TRUE)
               /\ UNCHANGED transactions
          ELSE /\ transactions' =
                      [transactions EXCEPT ![s] =
                          Loaded("delete_relationship",
                                 CHOOSE r \in relationships :
                                     r.id = relationship_id, "none")]
               /\ UNCHANGED last
       /\ UNCHANGED <<families, people, locations, person_locations,
                      relationships>>

LookupReciprocal(s) ==
    /\ transactions[s].pc = "loaded"
    /\ transactions' =
           [transactions EXCEPT ![s] =
               reciprocal_lookup(relationships, transactions[s])]
    /\ UNCHANGED <<families, people, locations, person_locations,
                   relationships, last>>

CommitTransaction(s) ==
    LET t == transactions[s]
        res == IF t.op = "create_relationship"
               THEN commit_create(relationships, t)
               ELSE IF t.op = "update_relationship"
               THEN commit_update(relationships, t)
               ELSE commit_delete(relationships, t)
    IN /\ t.pc = "ready"
       /\ Ids(res.rows) \subseteq 1..MaxConcurrentRelId
       /\ relationships' = res.rows
       /\ Respond(t.op, res)
       /\ transactions' = [transactions EXCEPT ![s] = Idle]
       /\ UNCHANGED <<families, people, locations, person_locations>>

(* The edges the concurrent Creates ask for, an edge and its mirror, and  *)
(* the types the concurrent Updates ask for.                               *)
ConcurrentCreates == {<<1, 2, "parent">>, <<2, 1, "child">>}

ConcurrentUpdateTypes == {"spouse"}

(* Two people and the relationship requests of two sessions, their steps  *)
(* interleaved.                                                            *)
NextConcurrent ==
    \/ \E c \in PersonCreates :
           /\ c.family_id = None /\ c.locations = <<>>
           /\ CreatePerson(MaxPersonId, c)
    \/ \E s \in Sessions, e \in ConcurrentCreates :
           BeginCreate(s, e[1], e[2], e[3])
    \/ \E s \in Sessions, r \in 1..MaxConcurrentRelId,
          type \in ConcurrentUpdateTypes :
           BeginUpdate(s, r, type)
    \/ \E s \in Sessions, r \in 1..MaxConcurrentRelId : BeginDelete(s, r)
    \/ \E s \in Sessions : LookupReciprocal(s)
    \/ \E s \in Sessions : CommitTransaction(s)

SpecConcurrent == Init /\ [][NextConcurrent]_vars

(* ======================= relationship reconciler ======================= *)
(* mirror: parent -> child, child -> parent, spouse -> spouse. *)
MirrorType(t) == IF t = "parent" THEN "child"
                 ELSE IF t = "child" THEN "parent" ELSE "spouse"

MirrorEdge(e) == <<e[2], e[1], MirrorType(e[3])>>

Between(rows, a, b) ==
    {e \in Edges(rows) : {e[1], e[2]} = {a, b}}

ValidCreate(from, to, type) ==
    /\ from # to
    /\ Get(people, from) # {}
    /\ Get(people, to) # {}
    /\ <<from, to, type>> \notin Edges(relationships)

(* C1: in every committed state each stored edge (a, b, t) has its mirror *)
(* (b, a, mirror(t)) stored too, whatever requests ran before.            *)
C1_MirrorSymmetry ==
    \A r \in relationships : MirrorEdge(Edge(r)) \in Edges(relationships)

(* An Update that changed a type has committed and edges are stored. *)
C1_Witness ==
    /\ last.op = "update_relationship"
    /\ last.status = HTTP_200_OK
    /\ \E e \in last.old : e[3] # last.type
    /\ relationships # {}

(* C2 as written: after a valid Create the two persons are joined by the  *)
(* new edge and its mirror and by no other edge.                          *)
C2_Original ==
    (last.op = "create_relationship" /\ last.status = HTTP_201_CREATED) =>
        Between(relationships, last.from, last.to) =
            {<<last.from, last.to, last.type>>,
             MirrorEdge(<<last.from, last.to, last.type>>)}

(* C2 amended: a valid Create returns 201 and stores the edge and its     *)
(* mirror; the edges stored afterwards are those stored before plus these *)
(* two, so edges of other types between the pair stay.                    *)
C2_CreateAddsMirroredPair ==
    \A from, to \in PersonIds, type \in RelationshipType :
        ValidCreate(from, to, type) =>
            LET res == post_relationships(people, relationships, from, to,
                                          type)
            IN /\ res.status = HTTP_201_CREATED
               /\ Edges(res.rows) =
                      Edges(relationships)
                          \cup {<<from, to, type>>,
                                MirrorEdge(<<from, to, type>>)}
               /\ Cardinality(res.rows) = Cardinality(relationships) + 2
               /\ relationships \subseteq res.rows

(* A Create has succeeded between two persons already joined by edges of  *)
(* another type.                                                          *)
C2_Witness ==
    /\ last.op = "create_relationship"
    /\ last.status = HTTP_201_CREATED
    /\ {<<last.from, last.to, last.type>>,
        MirrorEdge(<<last.from, last.to, last.type>>)}
           \subseteq Edges(relationships)
    /\ Cardinality(Between(relationships, last.from, last.to)) = 4

(* C3 as written: every Update of a stored edge (a, b, t) to another type *)
(* u succeeds and leaves the pair (a, b, u), (b, a, mirror(u)) and        *)
(* neither edge of the old pair.                                          *)
C3_Original ==
    (last.op = "update_relationship"
        /\ \E e \in last.old : e[3] # last.type) =>
        \A e \in last.old :
            /\ last.status = HTTP_200_OK
            /\ <<e[1], e[2], last.type>> \in Edges(relationships)
            /\ MirrorEdge(<<e[1], e[2], last.type>>) \in Edges(relationships)
            /\ e \notin Edges(relationships)
            /\ MirrorEdge(e) \notin Edges(relationships)

(* C3 amended: Update of a stored edge (a, b, t) to a type u # t for      *)
(* which no edge (a, b, u) is stored returns 200, keeps the row's id,     *)
(* stores (a, b, u) and (b, a, mirror(u)) and neither (a, b, t) nor       *)
(* (b, a, mirror(t)).                                                     *)
C3_UpdateSwapsMirroredPair ==
    \A r \in relationships, u \in RelationshipType :
        (u # r.type
            /\ <<r.from_person_id, r.to_person_id, u>>
                   \notin Edges(relationships)) =>
            LET res == put_relationship(relationships, r.id, u)
                new == <<r.from_person_id, r.to_person_id, u>>
            IN /\ res.status = HTTP_200_OK
               /\ [r EXCEPT !.type = u] \in res.rows
               /\ MirrorEdge(new) \in Edges(res.rows)
               /\ Edge(r) \notin Edges(res.rows)
               /\ MirrorEdge(Edge(r)) \notin Edges(res.rows)
               /\ Edges(res.rows) =
                      (Edges(relationships) \ {Edge(r), MirrorEdge(Edge(r))})
                          \cup {new, MirrorEdge(new)}

(* An Update to another type has committed: the new pair is stored, the   *)
(* old one is not.                                                        *)
C3_Witness ==
    /\ last.op = "update_relationship"
    /\ last.status = HTTP_200_OK
    /\ \E e \in last.old :
           /\ e[3] # last.type
           /\ <<e[1], e[2], last.type>> \in Edges(relationships)
           /\ MirrorEdge(<<e[1], e[2], last.type>>) \in Edges(relationships)
           /\ e \notin Edges(relationships)

(* C4: Delete of any stored edge returns 204 and removes that row and its *)
(* mirror row; in the state it leaves, Update and Delete addressed to     *)
(* either removed id answer 404.                                          *)
C4_DeleteRemovesBoth ==
    \A r \in relationships :
        LET res == delete_relationship_request(relationships, r.id)
            mirror == {m \in relationships : Edge(m) = MirrorEdge(Edge(r))}
        IN /\ res.status = HTTP_204_NO_CONTENT
           /\ mirror # {}
           /\ res.rows = relationships \ ({r} \cup mirror)
           /\ Edge(r) \notin Edges(res.rows)
           /\ MirrorEdge(Edge(r)) \notin Edges(res.rows)
           /\ \A gone \in Ids({r} \cup mirror) :
                  /\ delete_relationship_request(res.rows, gone).status
                         = HTTP_404_NOT_FOUND
                  /\ \A u \in RelationshipType :
                         put_relationship(res.rows, gone, u).status
                             = HTTP_404_NOT_FOUND

(* A Delete has committed and neither edge of the pair is stored. *)
C4_Witness ==
    /\ last.op = "delete_relationship"
    /\ last.status = HTTP_204_NO_CONTENT
    /\ last.old # {}
    /\ \A e \in last.old :
           e \notin Edges(relationships)
               /\ MirrorEdge(e) \notin Edges(relationships)
    /\ last.id \notin Ids(relationships)

(* C5: Create with from = to answers 400 (self relationship) whether or   *)
(* not the person exists, and leaves the stored edges unchanged.          *)
C5_NoSelfLoop ==
    \A p \in PersonIds, type \in RelationshipType :
        LET res == post_relationships(people, relationships, p, p, type)
        IN /\ res.status = HTTP_400_BAD_REQUEST
           /\ res.detail = "Cannot create relationship with the same person"
           /\ res.rows = relationships

(* A self Create naming no existing person was answered 400. *)
C5_Witness ==
    /\ last.op = "create_relationship"
    /\ last.from = last.to
    /\ Get(people, last.from) = {}
    /\ last.status = HTTP_400_BAD_REQUEST

(* C6: Create of an edge (from, to, type) that is stored already answers  *)
(* 409 and leaves the store unchanged, also when the stored edge is a     *)
(* mirror.                                                                *)
C6_DuplicateRejected ==
    \A from, to \in PersonIds, type \in RelationshipType :
        <<from, to, type>> \in Edges(relationships) =>
            LET res == post_relationships(people, relationships, from, to,
                                          type)
            IN /\ res.status = HTTP_409_CONFLICT
               /\ res.detail = "Relationship already exists"
               /\ res.rows = relationships

(* Create(2, 1, child) was answered 409 in a store whose only rows are    *)
(* (1, 2, parent) and, inserted after it as its mirror, (2, 1, child).    *)
C6_Witness ==
    /\ last.op = "create_relationship"
    /\ last.status = HTTP_409_CONFLICT
    /\ <<last.from, last.to, last.type>> = <<2, 1, "child">>
    /\ relationships =
           {[id |-> 1, from_person_id |-> 1, to_person_id |-> 2,
             type |-> "parent"],
            [id |-> 2, from_person_id |-> 2, to_person_id |-> 1,
             type |-> "child"]}

(* C7: Create with from # to answers 404 when either person is missing    *)
(* and inserts nothing.                                                   *)
C7_MissingPersonRejected ==
    \A from, to \in PersonIds, type \in RelationshipType :
        (from # to /\ (Get(people, from) = {} \/ Get(people, to) = {})) =>
            LET res == post_relationships(people, relationships, from, to,
                                          type)
            IN /\ res.status = HTTP_404_NOT_FOUND
               /\ res.detail = "Person not found"
               /\ res.rows = relationships

(* A Create from an existing person to a missing one was answered 404 and *)
(* neither edge is stored.                                                *)
C7_Witness ==
    /\ last.op = "create_relationship"
    /\ last.status = HTTP_404_NOT_FOUND
    /\ last.from # last.to
    /\ Get(people, last.from) # {}
    /\ Get(people, last.to) = {}
    /\ <<last.from, last.to, last.type>> \notin Edges(relationships)
    /\ MirrorEdge(<<last.from, last.to, last.type>>)
           \notin Edges(relationships)

(* ========================= location reconciler ========================= *)
SameRoleTwice(a) ==
    \E i, j \in DOMAIN a : i # j /\ a[i].role = a[j].role

FamilyOk(f) == f = None \/ f \in Ids(families)

(* The update payloads that carry a locations list, and the create        *)
(* payloads, whose person and family lookups succeed.                     *)
LocationUpdates ==
    {u \in PersonUpdates :
        "locations" \in u.fields_set /\ FamilyOk(u.family_id)}

Unchanged(res) ==
    /\ res.families = families
    /\ res.people = people
    /\ res.locations = locations
    /\ res.links = person_locations

(* C8: a list naming a role twice makes the reconciler raise 400 before   *)
(* it touches the session, and the update or create request that carried *)
(* it commits nothing: people (scalar fields included), locations and     *)
(* links are as before.                                                   *)
C8_DuplicateRoleRejected ==
    \A a \in AssignmentLists :
        SameRoleTwice(a) =>
            /\ \A p \in 1..MaxLocPersonId :
                   apply_person_locations(
                       LocSession(locations, person_locations), p, a)
                     = [LocSession(locations, person_locations)
                           EXCEPT !.status = HTTP_400_BAD_REQUEST,
                                  !.detail = "Duplicate location role"]
            /\ \A p \in Ids(people), u \in LocationUpdates :
                   u.locations = a =>
                       LET res == update_person(
                                      families, people, locations,
                                      person_locations, p, u)
                       IN /\ res.status = HTTP_400_BAD_REQUEST
                          /\ res.detail = "Duplicate location role"
                          /\ Unchanged(res)
            /\ \A f \in FamilyRefs :
                   FamilyOk(f) =>
                       LET res == create_person(
                                      families, people, locations,
                                      person_locations,
                                      PersonCreate(None, None, f, NoFamily, a))
                       IN /\ res.status = HTTP_400_BAD_REQUEST
                          /\ Unchanged(res)

(* An update was answered 400 for a repeated role and the person's only   *)
(* link is still its birthplace.                                          *)
C8_Witness ==
    /\ last.op = "update_person"
    /\ last.status = HTTP_400_BAD_REQUEST
    /\ last.detail = "Duplicate location role"
    /\ \E l \in person_locations :
           /\ l.person_id = last.id
           /\ l.role = "birthplace"
           /\ LinksOf(person_locations, last.id) = {l}

(* The ids the inline assignments before position i take. *)
InlineBefore(a, i) ==
    Cardinality({j \in 1..(i - 1) : a[j].new_location # NoNewLocation})

Unresolved(a, i) ==
    /\ a[i].new_location = NoNewLocation
    /\ a[i].location_id \notin Ids(locations)
    /\ a[i].location_id \notin
           NextId(locations)..(NextId(locations) + InlineBefore(a, i) - 1)

(* C9: a list without repeated roles that names a location id which does  *)
(* not resolve makes the request fail with 404 "Location not found" and   *)
(* commit nothing: no link is deleted or re-pointed, no inline location   *)
(* is stored and, on creation, no person.                                 *)
C9_LocationNotFoundAtomic ==
    \A a \in AssignmentLists :
        (~SameRoleTwice(a) /\ \E i \in DOMAIN a : Unresolved(a, i)) =>
            /\ \A p \in Ids(people), u \in LocationUpdates :
                   u.locations = a =>
                       LET res == update_person(
                                      families, people, locations,
                                      person_locations, p, u)
                       IN /\ res.status = HTTP_404_NOT_FOUND
                          /\ res.detail = "Location not found"
                          /\ Unchanged(res)
            /\ \A f \in FamilyRefs :
                   FamilyOk(f) =>
                       LET res == create_person(
                                      families, people, locations,
                                      person_locations,
                                      PersonCreate(None, None, f, NoFamily, a))
                       IN /\ res.status = HTTP_404_NOT_FOUND
                          /\ res.detail = "Location not found"
                          /\ Unchanged(res)

(* An update was answered 404 for an unknown location while the person    *)
(* has a link and a location is stored.                                   *)
C9_Witness ==
    /\ last.op = "update_person"
    /\ last.status = HTTP_404_NOT_FOUND
    /\ last.detail = "Location not found"
    /\ LinksOf(person_locations, last.id) # {}
    /\ Cardinality(locations) < MaxLocationId

(* The links of person p match list a: one link for each assignment, at   *)
(* the location it names or at a location created for it, and no link of  *)
(* another role.                                                          *)
Matches(res, p, a) ==
    LET mine == LinksOf(res.links, p)
        inline == {i \in DOMAIN a : a[i].new_location # NoNewLocation}
    IN /\ \A i \in DOMAIN a :
              /\ Cardinality({l \in mine : l.role = a[i].role}) = 1
              /\ \A l \in mine :
                     l.role = a[i].role =>
                         IF i \in inline
                         THEN /\ l.location_id \notin Ids(locations)
                              /\ [id |-> l.location_id, name |-> "inline"]
                                     \in res.locations
                         ELSE /\ l.location_id = a[i].location_id
                              /\ l.location_id \in Ids(res.locations)
       /\ \A l \in mine : \E i \in DOMAIN a : a[i].role = l.role
       /\ Cardinality(mine) = Len(a)
       /\ Cardinality({l.location_id :
                         l \in {m \in mine :
                                   \E i \in inline : a[i].role = m.role}})
              = Cardinality(inline)

(* C10: when an update or create carrying a list without repeated roles   *)
(* succeeds, the person's links match the list exactly, whatever links    *)
(* the person had before.                                                 *)
C10_LinksMatchAssignments ==
    \A a \in AssignmentLists :
        ~SameRoleTwice(a) =>
            /\ \A p \in Ids(people), u \in LocationUpdates :
                   u.locations = a =>
                       LET res == update_person(
                                      families, people, locations,
                                      person_locations, p, u)
                       IN res.status = HTTP_200_OK => Matches(res, p, a)
            /\ \A f \in FamilyRefs :
                   LET res == create_person(
                                  families, people, locations,
                                  person_locations,
                                  PersonCreate(None, None, f, NoFamily, a))
                   IN res.status = HTTP_201_CREATED =>
                          Matches(res, NextId(people), a)

(* An update has committed that left the person two links, one of them at *)
(* a location created inline.                                             *)
C10_Witness ==
    /\ last.op = "update_person"
    /\ last.status = HTTP_200_OK
    /\ Cardinality(LinksOf(person_locations, last.id)) = 2
    /\ \E l \in LinksOf(person_locations, last.id) :
           [id |-> l.location_id, name |-> "inline"] \in locations

(* ========================== idempotent replace ========================= *)
(* The body of an update that carries only the locations list a. *)
OnlyLocations(a) == PersonUpdate({"locations"}, None, None, None, a)

ById(a) == \A i \in DOMAIN a : a[i].new_location = NoNewLocation

RolePairs(links, p) ==
    {<<l.role, l.location_id>> : l \in LinksOf(links, p)}

LinkRows(links, p) ==
    {<<l.id, l.role>> : l \in LinksOf(links, p)}

(* The outcome of the same update sent again right after res. *)
Again(res, p, a) ==
    update_person(res.families, res.people, res.locations, res.links, p,
                  OnlyLocations(a))

(* C11 as stated: for every list (by existing id or inline) whose update  *)
(* succeeds, the same update sent again leaves the same (role, location)  *)
(* pairs.                                                                 *)
C11_Original ==
    \A a \in AssignmentLists, p \in Ids(people) :
        LET first == update_person(families, people, locations,
                                   person_locations, p, OnlyLocations(a))
            second == Again(first, p, a)
        IN first.status = HTTP_200_OK =>
               /\ second.status = HTTP_200_OK
               /\ RolePairs(second.links, p) = RolePairs(first.links, p)

(* C11: for every list whose update succeeds, the same update sent again  *)
(* succeeds and leaves the same link rows, one for each requested role,   *)
(* none added and none deleted; a list that names only existing location  *)
(* ids leaves the links and the locations exactly as they were, and each  *)
(* inline assignment re-points its link to a location the second call     *)
(* creates.                                                               *)
C11_IdempotentReplace ==
    \A a \in AssignmentLists, p \in Ids(people) :
        LET first == update_person(families, people, locations,
                                   person_locations, p, OnlyLocations(a))
            second == Again(first, p, a)
        IN first.status = HTTP_200_OK =>
               /\ second.status = HTTP_200_OK
               /\ LinkRows(second.links, p) = LinkRows(first.links, p)
               /\ second.people = first.people
               /\ ById(a) =>
                      /\ second.links = first.links
                      /\ second.locations = first.locations
               /\ \A i \in DOMAIN a :
                      \A l \in LinksOf(second.links, p) :
                          l.role = a[i].role =>
                              IF a[i].new_location = NoNewLocation
                              THEN l.location_id = a[i].location_id
                              ELSE l.location_id \notin Ids(first.locations)

(* An update has committed that left the person two links at two posted   *)
(* locations, so the list naming these two by id has just been applied.   *)
C11_Witness ==
    /\ last.op = "update_person"
    /\ last.status = HTTP_200_OK
    /\ Cardinality(LinksOf(person_locations, last.id)) = 2
    /\ \A l \in LinksOf(person_locations, last.id) :
           [id |-> l.location_id, name |-> "posted"] \in locations
    /\ \E a \in AssignmentLists :
           /\ Len(a) = 2
           /\ ById(a)
           /\ RolePairs(person_locations, last.id)
                  = {<<a[i].role, a[i].location_id>> : i \in DOMAIN a}
           /\ Again([families |-> families, people |-> people,
                     locations |-> locations, links |-> person_locations],
                    last.id, a).links = person_locations

(* ========================= one link per role ========================== *)
Resolves(a) == \A i \in DOMAIN a : ~Unresolved(a, i)

(* C12: no two stored links share (person_id, role); an update or create  *)
(* whose list names each role once and only locations that resolve is     *)
(* accepted and leaves one link for each named role, at the location      *)
(* named, also when the person had a link of that role elsewhere: that    *)
(* link row is kept and re-pointed.                                       *)
C12_OneLinkPerRole ==
    /\ LinkUnique(person_locations)
    /\ \A a \in AssignmentLists :
           (~SameRoleTwice(a) /\ Resolves(a)) =>
               /\ \A p \in Ids(people) :
                      LET res == update_person(
                                     families, people, locations,
                                     person_locations, p, OnlyLocations(a))
                      IN /\ res.status = HTTP_200_OK
                         /\ LinkUnique(res.links)
                         /\ \A i \in DOMAIN a, l \in LinksOf(person_locations, p) :
                                (l.role = a[i].role
                                   /\ l.location_id # a[i].location_id) =>
                                    \E m \in res.links :
                                        /\ m.id = l.id
                                        /\ m.role = l.role
                                        /\ m.person_id = p
                                        /\ m.location_id # l.location_id
                                        /\ a[i].new_location = NoNewLocation
                                               => m.location_id = a[i].location_id
               /\ LET res == create_person(
                                 families, people, locations,
                                 person_locations,
                                 PersonCreate(None, None, None, NoFamily, a))
                  IN /\ res.status = HTTP_201_CREATED
                     /\ LinkUnique(res.links)

(* An update has committed that moved the person's birthplace link to     *)
(* another location, and the person has a residence link as well.         *)
C12_Witness ==
    /\ last.op = "update_person"
    /\ last.status = HTTP_200_OK
    /\ last.repointed
    /\ \E l, m \in LinksOf(person_locations, last.id) :
           /\ l.role = "birthplace"
           /\ m.role = "residence"
           /\ LinksOf(person_locations, last.id) = {l, m}

(* ======================= locations are never deleted =================== *)
InlineCount(a) ==
    Cardinality({i \in DOMAIN a : a[i].new_location # NoNewLocation})

(* What a people request may do to the locations: keep every stored one,  *)
(* and add one for each inline assignment of list a when it committed.    *)
KeepsLocations(res, ok, a) ==
    /\ locations \subseteq res.locations
    /\ IF res.status = ok
       THEN Cardinality(res.locations \ locations) = InlineCount(a)
       ELSE res.locations = locations

(* C13: after any person create or update, accepted or rejected, every    *)
(* location stored before is still stored unchanged, and the locations    *)
(* added are one for each inline assignment of a request that committed   *)
(* (none for a rejected request or an update without a locations list).   *)
C13_LocationsNeverDeleted ==
    /\ \A c \in PersonCreates :
           KeepsLocations(
               post_people(families, people, locations, person_locations, c),
               HTTP_201_CREATED, c.locations)
    /\ \A p \in PersonIds, u \in PersonUpdates :
           KeepsLocations(
               update_person(families, people, locations, person_locations,
                             p, u),
               HTTP_200_OK, u.locations)

(* An update has committed that moved the person's only link away from a  *)
(* location, and that location is still stored, now without a link.       *)
C13_Witness ==
    /\ last.op = "update_person"
    /\ last.status = HTTP_200_OK
    /\ last.repointed
    /\ Cardinality(person_locations) = 1
    /\ Cardinality(locations) = 2
    /\ \E l \in locations :
           \A k \in person_locations : k.location_id # l.id

(* ============================ deletion cascades ======================== *)
References(p) ==
    {r \in relationships : r.from_person_id = p \/ r.to_person_id = p}

(* Every relationship joins two stored persons and every link belongs to  *)
(* a stored person.                                                       *)
NoDanglingPerson ==
    /\ \A r \in relationships :
           {r.from_person_id, r.to_person_id} \subseteq Ids(people)
    /\ \A l \in person_locations : l.person_id \in Ids(people)

(* C14: in the state a Person deletion leaves, the person is gone, no     *)
(* relationship starts or ends at it, no link belongs to it, each         *)
(* remaining edge still has its mirror, and no row refers to a person     *)
(* that is not stored.                                                    *)
C14_DeletePersonCascades ==
    /\ NoDanglingPerson
    /\ (last.op = "delete_person" /\ last.status = HTTP_204_NO_CONTENT) =>
           /\ Get(people, last.id) = {}
           /\ References(last.id) = {}
           /\ LinksOf(person_locations, last.id) = {}
           /\ \A r \in relationships :
                  MirrorEdge(Edge(r)) \in Edges(relationships)

(* A person with relationships and a link was deleted: its rows are       *)
(* gone, and two other persons remain, joined by an edge and its mirror,  *)
(* one of them with a link.                                               *)
C14_Witness ==
    /\ last.op = "delete_person"
    /\ last.status = HTTP_204_NO_CONTENT
    /\ last.edges >= 2
    /\ last.links = 1
    /\ Cardinality(people) = 2
    /\ Cardinality(relationships) = 2
    /\ person_locations # {}

(* The members of family f in the current state. *)
MembersOf(f) == {p.id : p \in {q \in people : q.family_id = f}}

DeleteFamilyEffect ==
    (last'.op = "delete_family" /\ last'.status = HTTP_204_NO_CONTENT) =>
        LET gone == MembersOf(last'.id)
        IN /\ Get(families', last'.id) = {}
           /\ people' = {p \in people : p.id \notin gone}
           /\ \A p \in people' : p.family_id # last'.id
           /\ relationships' =
                  {r \in relationships :
                      /\ r.from_person_id \notin gone
                      /\ r.to_person_id \notin gone}
           /\ person_locations' =
                  {l \in person_locations : l.person_id \notin gone}
           /\ locations' = locations
           /\ NoDanglingPerson'

(* C15: a Family deletion removes the family and exactly its members;     *)
(* every relationship with a member at either end (also one whose other   *)
(* end is outside the family) and every link of a member goes with them,  *)
(* the persons outside the family and the rows among them stay, and no    *)
(* row is left referring to a deleted person.                             *)
C15_DeleteFamilyCascades == [][DeleteFamilyEffect]_vars

(* A family with one member was deleted; the member had a link and an     *)
(* edge pair with a person outside the family, who is still stored with   *)
(* its own link.                                                          *)
C15_Witness ==
    /\ last.op = "delete_family"
    /\ last.status = HTTP_204_NO_CONTENT
    /\ Cardinality(last.members) = 1
    /\ last.edges = 2
    /\ last.links = 1
    /\ relationships = {}
    /\ \E q \in people :
           /\ people = {q}
           /\ q.family_id = None
           /\ LinksOf(person_locations, q.id) # {}

(* ============================== date ordering ========================== *)
(* C16: every stored person that has both dates has its death_date on or *)
(* after its birth_date, whatever creates and updates were accepted.      *)
C16_DeathNotBeforeBirth ==
    \A p \in people :
        (p.birth_date # None /\ p.death_date # None) =>
            p.death_date >= p.birth_date

(* ============================ nested creation ========================== *)
Nested(c) == c.family # NoFamily \/ InlineCount(c.locations) > 0

(* What a committed creation with body c stores: the person, under the    *)
(* next id, in the inline family when the body carries one; that family,  *)
(* under the next family id; a location for each inline assignment; and   *)
(* the links the list asks for.                                           *)
AllPersisted(res, c) ==
    LET person_id == NextId(people)
        family_id == IF c.family # NoFamily THEN NextId(families)
                     ELSE c.family_id
    IN /\ res.people = people \cup {[id |-> person_id,
                                     family_id |-> family_id,
                                     birth_date |-> c.birth_date,
                                     death_date |-> c.death_date]}
       /\ IF c.family # NoFamily
          THEN /\ Cardinality(res.families) = Cardinality(families) + 1
               /\ \E f \in res.families \ families :
                      f.id = family_id /\ f.name \in c.family
          ELSE res.families = families
       /\ locations \subseteq res.locations
       /\ Cardinality(res.locations \ locations) = InlineCount(c.locations)
       /\ Matches(res, person_id, c.locations)
       /\ \A l \in person_locations : l \in res.links

(* C17: a creation whose body carries an inline family or inline          *)
(* locations either commits everything (person, family, locations and     *)
(* links, the person in the new family) or, when it is answered with an   *)
(* error, leaves families, people, locations and links as they were.      *)
C17_NestedCreateAtomic ==
    \A c \in NestedCreates :
        Nested(c) =>
            LET res == post_people(families, people, locations,
                                   person_locations, c)
            IN IF res.status = HTTP_201_CREATED
               THEN AllPersisted(res, c)
               ELSE Unchanged(res)

(* The first person was created together with its family and has a link   *)
(* to a location created inline as well.                                  *)
C17_Witness ==
    /\ last.op = "create_person"
    /\ last.status = HTTP_201_CREATED
    /\ last.family # {}
    /\ \E p \in people :
           /\ people = {p}
           /\ p.id = last.id
           /\ p.family_id \in last.family
           /\ Get(families, p.family_id) # {}
           /\ \E l \in LinksOf(person_locations, p.id) :
                  [id |-> l.location_id, name |-> "inline"] \in locations

(* ============================= the person form ========================= *)
(* C18: a form submission that is answered with an error message, for a   *)
(* blank required field, a selection that is not a number, an invalid     *)
(* body or a person creation that failed, leaves families, people,        *)
(* locations and links as they were, also when it named a new family and  *)
(* new locations; a form with a blank required field is always answered   *)
(* so.                                                                    *)
C18_RejectedFormCreatesNothing ==
    \A form \in Forms :
        LET res == submit_person_form(families, people, locations,
                                      person_locations, form)
        IN /\ (~form.first_name \/ ~form.last_name) =>
                  res.message_type = "error"
           /\ res.message_type = "error" => Unchanged(res)
           /\ res.message_type # "error" =>
                  Cardinality(res.people) = Cardinality(people) + 1

(* A form naming a new family and a new location was rejected for a       *)
(* blank required field, and no family, location or person is stored.     *)
C18_Witness ==
    /\ last.op = "submit_person_form"
    /\ last.message_type = "error"
    /\ ~last.sent
    /\ last.named
    /\ families = {}
    /\ locations = {}
    /\ people = {}

(* ======================== one row per typed edge ======================= *)
RowsOf(rows, e) == {r \in rows : Edge(r) = e}

(* C19: no two stored rows share (from_person_id, to_person_id, type);    *)
(* an Update of a row (a, b, t) to a type u that another row (a, b, u)    *)
(* already carries leaves one (a, b, u) row and, when it is rejected,     *)
(* the rows exactly as they were, the old mirror (b, a, mirror(t))        *)
(* included.                                                              *)
C19_OneRowPerTypedEdge ==
    /\ \A e \in Edges(relationships) :
           Cardinality(RowsOf(relationships, e)) = 1
    /\ \A r \in relationships, u \in RelationshipType :
           (u # r.type
              /\ <<r.from_person_id, r.to_person_id, u>>
                     \in Edges(relationships)) =>
               LET res == put_relationship(relationships, r.id, u)
               IN /\ Cardinality(
                         RowsOf(res.rows,
                                <<r.from_person_id, r.to_person_id, u>>)) = 1
                  /\ \A e \in Edges(res.rows) :
                         Cardinality(RowsOf(res.rows, e)) = 1
                  /\ res.status # HTTP_200_OK =>
                         /\ res.rows = relationships
                         /\ MirrorEdge(Edge(r)) \in Edges(res.rows)

(* An Update to a type that another row between the same persons already  *)
(* carried was rejected; the addressed row, its mirror and the other row  *)
(* are all stored.                                                        *)
C19_Witness ==
    /\ last.op = "update_relationship"
    /\ last.status # HTTP_200_OK
    /\ \E r \in Get(relationships, last.id) :
           /\ last.old = {Edge(r)}
           /\ r.type # last.type
           /\ MirrorEdge(Edge(r)) \in Edges(relationships)
           /\ <<r.from_person_id, r.to_person_id, last.type>>
                  \in Edges(relationships)

(* Every link belongs to a stored person and points at a stored location. *)
NoDanglingLink ==
    \A k \in person_locations :
        k.person_id \in Ids(people) /\ k.location_id \in Ids(locations)

DeleteLocationEffect ==
    /\ NoDanglingLink'
    /\ (last'.op = "delete_location" /\ last'.status = HTTP_204_NO_CONTENT) =>
           /\ locations' = {l \in locations : l.id # last'.id}
           /\ person_locations' =
                  {k \in person_locations : k.location_id # last'.id}
           /\ people' = people
           /\ families' = families
           /\ relationships' = relationships

(* C20: a Location deletion removes that location and exactly the links   *)
(* that point at it; persons, their links to other locations and all      *)
(* other rows are as before, and after every request each link belongs    *)
(* to a stored person and points at a stored location.                    *)
C20_DeleteLocationCascades == [][DeleteLocationEffect]_vars

(* A location that one of a person's two links pointed at was deleted;    *)
(* the person and its other link, at a stored location, remain.           *)
C20_Witness ==
    /\ last.op = "delete_location"
    /\ last.status = HTTP_204_NO_CONTENT
    /\ last.links = 1
    /\ \E p \in people, k \in person_locations :
           /\ person_locations = {k}
           /\ k.person_id = p.id
           /\ k.location_id # last.id
           /\ k.location_id \in Ids(locations)

(* ------------------------------------------------------------------------ *)
(* C21: an Update whose new type equals the edge's current type is a       *)
(* no-op: it answers 200 and the stored Relationship rows (ids, endpoints, *)
(* types) are the same before and after, so no mirror is removed, inserted *)
(* or re-created.                                                          *)
C21_SameTypeUpdateIsNoOp ==
    \A r \in relationships :
        LET res == put_relationship(relationships, r.id, r.type)
        IN /\ res.status = HTTP_200_OK
           /\ res.rows = relationships

(* A same-type Update was answered while the edge's mirror is stored under *)
(* a smaller id than another row.                                          *)
C21_Witness ==
    /\ last.op = "update_relationship"
    /\ last.status = HTTP_200_OK
    /\ \E r \in relationships :
          /\ r.id = last.id
          /\ r.type = last.type
          /\ last.old = {Edge(r)}
          /\ \E m \in relationships :
                /\ Edge(m) = MirrorEdge(Edge(r))
                /\ m.id < SetMax(Ids(relationships))

(* ------------------------------------------------------------------------ *)
(* The assignment lists of up to MaxPermuted entries that name locations   *)
(* by id and no role twice, over all three roles.                          *)
ByIdLists ==
    {a \in UNION {[1..n -> {Assignment(role, id, NoNewLocation) :
                               role \in LocationRole, id \in LocationIds}] :
                     n \in 0..MaxPermuted} : ~SameRoleTwice(a)}

(* The rearrangements of a list. *)
Reordered(a) ==
    {[i \in DOMAIN a |-> a[f[i]]] : f \in Permutations(DOMAIN a)}

(* C22: for every list that names each role at most once and only stored  *)
(* locations, and every rearrangement of it, the update of the same person *)
(* from the same state succeeds and leaves the same (role, location) links *)
(* of that person: those the list names.                                   *)
C22_OrderIndependent ==
    \A a \in ByIdLists, p \in Ids(people) :
        Resolves(a) =>
            \A b \in Reordered(a) :
                LET first == update_person(families, people, locations,
                                           person_locations, p,
                                           OnlyLocations(a))
                    other == update_person(families, people, locations,
                                           person_locations, p,
                                           OnlyLocations(b))
                IN /\ first.status = HTTP_200_OK
                   /\ other.status = HTTP_200_OK
                   /\ RolePairs(other.links, p) = RolePairs(first.links, p)
                   /\ RolePairs(first.links, p)
                          = {<<a[i].role, a[i].location_id>> : i \in DOMAIN a}

(* An update re-pointed one link of a person and left the person with     *)
(* links of two roles at two locations: its list named both roles.         *)
C22_Witness ==
    /\ last.op = "update_person"
    /\ last.status = HTTP_200_OK
    /\ last.repointed
    /\ \E l1, l2 \in LinksOf(person_locations, last.id) :
          l1.role # l2.role /\ l1.location_id # l2.location_id

(* ------------------------------------------------------------------------ *)
(* The edges a relationship request may change: the addressed edge and its *)
(* mirror, of the old type and, for an Update, of the new type.            *)
Touched(l) ==
    IF l.op = "create_relationship"
    THEN {<<l.from, l.to, l.type>>, MirrorEdge(<<l.from, l.to, l.type>>)}
    ELSE LET addressed ==
                 IF l.op = "update_relationship"
                 THEN l.old \cup {<<e[1], e[2], l.type>> : e \in l.old}
                 ELSE l.old
         IN addressed \cup {MirrorEdge(e) : e \in addressed}

Untouched(rows, l) == {r \in rows : Edge(r) \notin Touched(l)}

RelationshipStep ==
    last'.op \in {"create_relationship", "update_relationship",
                  "delete_relationship"}

RelationshipEffect ==
    RelationshipStep =>
        /\ Untouched(relationships', last') = Untouched(relationships, last')
        /\ UNCHANGED <<families, people, locations, person_locations>>

(* C24: a relationship Create, Update or Delete leaves every row that is   *)
(* neither the addressed edge nor its mirror (of the old or the new type)  *)
(* as it was, edges between the same two persons included, and changes no  *)
(* Person, Family, Location or PersonLocation row.                         *)
C24_OnlyAddressedEdgeChanges == [][RelationshipEffect]_vars

(* An Update changed the type of an edge while an edge between another     *)
(* pair of persons and a birthplace link were stored.                      *)
C24_Witness ==
    /\ last.op = "update_relationship"
    /\ last.status = HTTP_200_OK
    /\ \E r \in relationships :
          /\ r.id = last.id
          /\ Edge(r) \notin last.old
          /\ \E o \in relationships :
                {o.from_person_id, o.to_person_id}
                    # {r.from_person_id, r.to_person_id}
    /\ person_locations # {}

(* ------------------------------------------------------------------------ *)
(* C25: an update whose body carries no locations list leaves every link   *)
(* as it was; an update whose list is empty is accepted and removes every  *)
(* link of the addressed person and no link of another person; neither     *)
(* deletes a Location row.                                                 *)
C25_OmittedKeepsEmptyClears ==
    \A p \in Ids(people), u \in PersonUpdates :
        LET res == update_person(families, people, locations,
                                 person_locations, p, u)
        IN /\ locations \subseteq res.locations
           /\ "locations" \notin u.fields_set =>
                  res.links = person_locations
           /\ ("locations" \in u.fields_set /\ u.locations = <<>>
                 /\ FamilyOk(u.family_id)) =>
                  /\ res.status = HTTP_200_OK
                  /\ LinksOf(res.links, p) = {}
                  /\ res.links = person_locations
                                     \ LinksOf(person_locations, p)

(* An update removed the links of one person, who has none left, while    *)
(* another person keeps a link.                                            *)
C25_Witness ==
    /\ last.op = "update_person"
    /\ last.status = HTTP_200_OK
    /\ last.removed
    /\ LinksOf(person_locations, last.id) = {}
    /\ \E l \in person_locations : l.person_id # last.id

(* ------------------------------------------------------------------------ *)
Symmetric(rows) ==
    \A e \in Edges(rows) : MirrorEdge(e) \in Edges(rows)

(* C23: whatever the interleaving of the reads and the commits of two     *)
(* concurrent relationship requests, the committed rows satisfy            *)
(* (from, to, type) uniqueness and mirror symmetry: no duplicate and no    *)
(* forward-only edge is ever committed.                                    *)
C23_ConcurrentRequestsKeepPairs ==
    /\ RelUnique(relationships)
    /\ Symmetric(relationships)

====
